---- MODULE Spec2Model ----
(***************************************************************************)
(* Model of nova_autopilot.AutoPilot (src/nova_autopilot/autopilot.py) and *)
(* its result records (src/nova_autopilot/models.py).                      *)
(*                                                                         *)
(* One orchestrator object is modelled.  Its public methods execute,       *)
(* extract, chain and interactive run one at a time (the code is           *)
(* synchronous); each call is a small process whose position is pc.  Every *)
(* call into a collaborator (the session class and its start, act,         *)
(* act_get, screenshot and stop hooks, the LLM client) is an input: it     *)
(* either returns a value or raises an exception of class Exception.       *)
(***************************************************************************)
EXTENDS Integers, Sequences, FiniteSets, TLC

\* ---------------------------------------------------------------- bounds
MaxRetries == 2     \* max_retries is drawn from 0..MaxRetries
MaxChain == 2       \* longest task list handed to chain
MaxCalls == 2       \* public calls made one after another on the object
MaxInputs == 2      \* operator lines read by one interactive loop

\* ------------------------------------------------------- Python values
\* Optional[...]: None, or a present value.
None == <<>>
Some(x) == <<x>>

\* An exception object; str(e) is its message (empty for Exception()).
Exc(cls, msg) == [cls |-> cls, msg |-> msg]
Str(e) == e.msg

\* self._nova_class is read before __init__ or anything else has set it.
AttributeErrorMsg == "'AutoPilot' object has no attribute '_nova_class'"

\* ------------------------------------------------------- input domains
Tasks == {"A", "B"}
Urls == {None, Some("https://example.com")}
ActMsgs == {"", "E1"}
ConstructMsgs == {"construct failed"}
StartMsgs == {"start failed"}
StopMsgs == {"stop failed"}
ShotMsgs == {"screenshot failed"}
Blobs == {"", "PNG"}

\* the task list of a chain of k tasks
ChainTasks(k) == [j \in 1..k |-> IF j % 2 = 1 THEN "A" ELSE "B"]

\* --------------------------------------------------------------- records
TaskResult(success) ==
    [success |-> success, data |-> None, error |-> None,
     screenshots |-> <<>>, steps_taken |-> <<>>]

ExtractResult(success, source_url) ==
    [success |-> success, data |-> [kind |-> "dict"], source_url |-> source_url,
     schema_validated |-> FALSE, error |-> None]

ChainResult(success) ==
    [success |-> success, results |-> <<>>, tasks_completed |-> 0, tasks_failed |-> 0]

\* mutant: the property does not ask for a completed task
all_succeededNoCompleted(c) == c.tasks_failed = 0

\* ChainResult.all_succeeded (models.py 47-49)
all_succeeded(c) == c.tasks_failed = 0 /\ c.tasks_completed > 0

ActionStep(action, value) == [action |-> action, value |-> value]

TaskPlan(t, steps, dur, auth, review) ==
    [task |-> t, steps |-> steps, estimated_duration |-> dur,
     requires_auth |-> auth, human_review_needed |-> review]

NoPlan == TaskPlan("", <<>>, 0, FALSE, FALSE)

\* ---------------------------------------------------------- mock session
\* mutant: the mock echoes no task
MockActNoTask(t) == [status |-> "mock", task |-> ""]

MockAct(t) == [status |-> "mock", task |-> t]
\* mutant: act_get answers as act does
MockActGetAsAct(t) == [status |-> "mock", task |-> t]

MockActGet(t) == [data |-> <<>>, status |-> "mock"]
MockScreenshot == ""

\* what a real session's act returns for a task
RealAct(t) == [status |-> "done", task |-> t]
RealActGet(t) == [kind |-> "list", data |-> <<t>>, status |-> "done"]

VARIABLES
    max_retries,          \* self.max_retries, fixed at construction
    sdk,                  \* whether "from nova_act import NovaAct" succeeds
    nova_class,           \* self._nova_class: "unset", "None" or "NovaAct"
    bedrock,              \* self._bedrock: "None" or "client"
    session_active,       \* self._session_active
    op,                   \* the public method whose body is running
    inChain,              \* execute was called by chain
    pc,                   \* position in the running method
    task, starting_url, capture_screenshots, schema,    \* arguments
    plan,                 \* the TaskPlan of the running execute
    nova,                 \* the handle yielded by _browser_session
    attempt,              \* the retry loop's variable
    exc,                  \* the exception in flight, if any
    result, xresult, cresult,   \* TaskResult, ExtractResult, ChainResult under construction
    tasks, cidx, stop_on_failure,   \* chain's arguments and loop position
    done, raised, calls,  \* last public call that ended, how, and how many were made
    callerSet,            \* the caller assigned a private attribute after construction
    warnings,             \* "using mock mode" warnings logged so far
    hooks,                \* per-session record of the hooks invoked and their outcome
    acts,                 \* outcomes of the act (act_get, then json.loads) calls of the running method, in order
    shot,                 \* outcome of the screenshot call of the running execute
    cexec,                \* the tasks chain handed to execute, in order
    couts,                \* the TaskResults execute returned to chain, in order
    nInputs,              \* lines read by the interactive loop that did not end it
    sent,                 \* the act, act_get and screenshot calls of the running method, with their argument, in order
    lines,                \* the lines Prompt.ask returned to the running interactive loop, in order
    constructed           \* the session constructor calls of the running public call, with their argument, in order

attrs == <<max_retries, sdk, nova_class, bedrock, session_active>>
frame == <<op, inChain, pc, task, starting_url, capture_screenshots, schema,
           plan, nova, attempt, exc>>
records == <<result, xresult, cresult>>
chainv == <<tasks, cidx, stop_on_failure>>
outcome == <<done, raised, calls>>
ghost == <<callerSet, warnings, hooks, acts, shot, cexec, couts, nInputs,
          sent, lines, constructed>>
vars == <<attrs, frame, records, chainv, outcome, ghost>>

\* outcome of a collaborator call: not made, returned, or raised with a message
NotCalled == <<>>
Returned == <<"ok">>
Raised(m) == <<"raise", m>>

NoHooks == [llm |-> NotCalled, construct |-> NotCalled, start |-> NotCalled,
            stop |-> NotCalled, nStart |-> 0, nStop |-> 0,
            via |-> "none", validate |-> NotCalled]

\* ------------------------------------------------------------------ Init
\* AutoPilot.__init__: the configuration is stored, _nova and _bedrock are
\* None, _session_active is False; _nova_class is not assigned.
Init ==
    /\ max_retries \in 0..MaxRetries
    /\ sdk \in BOOLEAN
    /\ nova_class = "unset"
    /\ bedrock = "None"
    /\ session_active = FALSE
    /\ op = "none" /\ inChain = FALSE /\ pc = "idle"
    /\ task = "A" /\ starting_url = None /\ capture_screenshots = TRUE /\ schema = FALSE
    /\ plan = NoPlan /\ nova = "none" /\ attempt = 0 /\ exc = None
    /\ result = TaskResult(FALSE)
    /\ xresult = ExtractResult(FALSE, None)
    /\ cresult = ChainResult(TRUE)
    /\ tasks = <<>> /\ cidx = 1 /\ stop_on_failure = TRUE
    /\ done = "none" /\ raised = FALSE /\ calls = 0
    /\ callerSet = FALSE /\ warnings = 0 /\ hooks = NoHooks
    /\ acts = <<>> /\ shot = NotCalled /\ cexec = <<>> /\ couts = <<>> /\ nInputs = 0
    /\ sent = <<>> /\ lines = <<>> /\ constructed = <<>>

\* ------------------------------------------------------------- helpers
\* where the with-body of the running method starts (autopilot.py 209-211,
\* 266-268, 347-348); the for loop of execute runs range(max_retries)
\* leaving the with-block with handle h: a real session goes through the
\* finally clause (autopilot.py 103-105), the mock generator simply ends and
\* an exception thrown into it propagates (autopilot.py 106-108)
LeavePc(h, e) ==
    IF h = "real" THEN "stop"
    ELSE IF e = None THEN "ret" ELSE "except"

\* where the with-body of the running method starts with handle h
\* (autopilot.py 209-211, 266-268, 347-348); execute's loop runs range(max_retries)
BodyPc(h) ==
    CASE op = "execute" -> IF 0 < max_retries THEN "act" ELSE LeavePc(h, None)
      [] op = "extract" -> "x_body"
      [] OTHER -> "prompt"

\* _init_nova: the import decides the class
InitNova == IF sdk THEN "NovaAct" ELSE "None"

\* mutant: only the first step is recorded
StepActionsFirstOnly(steps) == IF steps = <<>> THEN <<>> ELSE <<Head(steps).action>>

\* [step.action for step in plan.steps]
RECURSIVE StepActions(_)
StepActions(steps) ==
    IF steps = <<>> THEN <<>>
    ELSE <<Head(steps).action>> \o StepActions(Tail(steps))

\* mutant: the comparison is off by one, so no attempt is the last one
AttemptFailedOffByOne(res, att, e) ==
    IF att = max_retries THEN [res EXCEPT !.error = Some(Str(e))] ELSE res

\* the except clause of one attempt (autopilot.py 231-234)
AttemptFailed(res, att, e) ==
    IF att = max_retries - 1 THEN [res EXCEPT !.error = Some(Str(e))] ELSE res

\* the success branch of one attempt, before the screenshot (autopilot.py 215-219)
AttemptSucceeded(res, value, p) ==
    [res EXCEPT !.success = TRUE, !.data = Some(value),
                !.steps_taken = StepActions(p.steps)]

\* the outer except clause of execute (autopilot.py 236-238)
ExecuteCaught(res, e) == [res EXCEPT !.error = Some(Str(e))]

\* if screenshot: result.screenshots.append(screenshot) (autopilot.py 224-225)
KeepScreenshot(res, blob) ==
    IF blob # "" THEN [res EXCEPT !.screenshots = Append(@, blob)] ELSE res

\* mutant: the fallback plan is left at the dataclass defaults
FallbackPlanDefaults(t) == TaskPlan(t, <<>>, 0, FALSE, FALSE)

\* the fallback plan of _plan_task (autopilot.py 125-129, 176-180)
FallbackPlan(t) == TaskPlan(t, <<ActionStep("execute", Some(t))>>, 30, FALSE, FALSE)

\* plan_data objects the LLM may answer with
PlanData ==
    { [steps |-> <<ActionStep("navigate", None), ActionStep("click", None)>>,
       estimated_duration |-> 12, requires_auth |-> FALSE, human_review_needed |-> TRUE] }

\* what the try block of _plan_task may do (autopilot.py 131-172):
\* invoke_model raises, json.loads of the body or of the text raises, or
\* plan_data is read
LLMMsgs == {"invoke_model failed", "Expecting value: line 1 column 1 (char 0)"}
LLMOutcomes == {Raised(m) : m \in LLMMsgs} \cup {<<"ok", d>> : d \in PlanData}

\* the TaskPlan _plan_task returns with self._bedrock = b after _init_bedrock
\* and the try block ending as out (autopilot.py 123-180)
PlanOf(t, b, out) ==
    IF b = "None" \/ out[1] # "ok" THEN FallbackPlan(t)
    ELSE TaskPlan(t, out[2].steps, out[2].estimated_duration,
                  out[2].requires_auth, out[2].human_review_needed)

\* Nothing of an earlier call is read by a later one except the object's
\* attributes: the locals and records of the methods that are not running
\* are put back to their initial values when a public call begins.
ResetSession ==
    /\ plan' = NoPlan /\ nova' = "none" /\ attempt' = 0 /\ exc' = None
    /\ hooks' = NoHooks /\ acts' = <<>> /\ shot' = NotCalled /\ sent' = <<>>

ResetExecute ==
    /\ task' = "A" /\ capture_screenshots' = TRUE /\ result' = TaskResult(FALSE)

ResetExtract == xresult' = ExtractResult(FALSE, None) /\ schema' = FALSE

ResetChain ==
    /\ cresult' = ChainResult(TRUE) /\ tasks' = <<>> /\ cidx' = 1
    /\ stop_on_failure' = TRUE /\ cexec' = <<>> /\ couts' = <<>>
    /\ constructed' = <<>>

ResetInteractive == nInputs' = 0 /\ lines' = <<>>

\* the frame of a fresh execute call (autopilot.py 182-200)
ExecuteFrame(t, url, cap) ==
    /\ op' = "execute"
    /\ task' = t /\ starting_url' = url /\ capture_screenshots' = cap
    /\ result' = TaskResult(FALSE)
    /\ ResetSession
    /\ pc' = "plan"

\* ------------------------------------------------------------- actions
\* the caller assigns pilot._nova_class = None (tests/test_autopilot.py 61)
SetNovaClass ==
    /\ pc = "idle" /\ calls = 0 /\ nova_class = "unset"
    /\ nova_class' = "None" /\ callerSet' = TRUE
    /\ UNCHANGED <<max_retries, sdk, bedrock, session_active, frame, records,
                   chainv, outcome, warnings, hooks, acts, shot,
                   cexec, couts, nInputs,
                   sent, lines, constructed>>

\* the caller reads the returned record into its own data and goes on to its
\* next call on the same object (examples/competitive_intel.py 63-104, 115-117)
CallerTakes ==
    /\ pc = "idle" /\ done # "none" /\ calls < MaxCalls
    /\ done' = "none" /\ raised' = FALSE
    /\ task' = "A" /\ capture_screenshots' = TRUE /\ result' = TaskResult(FALSE)
    /\ starting_url' = None
    /\ ResetSession /\ ResetExtract /\ ResetChain /\ ResetInteractive
    /\ UNCHANGED <<attrs, op, inChain, pc, calls, callerSet, warnings>>

\* pilot.execute(task, starting_url, capture_screenshots)
CallExecute ==
    /\ pc = "idle" /\ done = "none" /\ calls < MaxCalls
    /\ \E t \in Tasks, url \in Urls, cap \in BOOLEAN : ExecuteFrame(t, url, cap)
    /\ inChain' = FALSE /\ done' = "none" /\ raised' = FALSE /\ calls' = calls + 1
    /\ ResetExtract /\ ResetChain /\ ResetInteractive
    /\ UNCHANGED <<attrs, callerSet, warnings>>

\* _plan_task, whole (autopilot.py 110-180)
PlanTask ==
    /\ pc = "plan"
    /\ \E initOk \in BOOLEAN, out \in LLMOutcomes :
        LET b == IF bedrock = "None" THEN (IF initOk THEN "client" ELSE "None")
                 ELSE bedrock
        IN /\ bedrock' = b
           /\ plan' = PlanOf(task, b, out)
           /\ hooks' = [hooks EXCEPT !.llm = IF b = "None" THEN NotCalled
                                              ELSE IF out[1] = "ok" THEN Returned
                                              ELSE out]
    /\ pc' = "open"
    /\ UNCHANGED <<max_retries, sdk, nova_class, session_active, op, inChain, task,
                   starting_url, capture_screenshots, schema, nova, attempt, exc,
                   records, chainv, outcome, callerSet, warnings, acts, shot,
                   cexec, couts, nInputs,
                   sent, lines, constructed>>

\* starting_page=starting_url or "about:blank" (autopilot.py 94)
StartingPage(url) == IF url = None THEN "about:blank" ELSE url[1]

\* _browser_session up to the start hook (autopilot.py 88-98, 106-108)
OpenSession ==
    /\ pc = "open"
    /\ IF nova_class = "unset"
       THEN /\ exc' = Some(Exc("AttributeError", AttributeErrorMsg))
            /\ pc' = "except"
            /\ UNCHANGED <<nova_class, warnings, nova, hooks, constructed>>
       ELSE LET cls == IF nova_class = "None" THEN InitNova ELSE nova_class
            IN /\ nova_class' = cls
               /\ warnings' = IF nova_class = "None" /\ ~sdk THEN warnings + 1 ELSE warnings
               /\ IF cls # "None"
                  THEN \E out \in {Returned} \cup {Raised(m) : m \in ConstructMsgs} :
                        /\ hooks' = [hooks EXCEPT !.construct = out]
                        /\ constructed' = Append(constructed,
                               <<"NovaAct", StartingPage(starting_url)>>)
                        /\ IF out = Returned
                           THEN nova' = "real" /\ pc' = "start" /\ exc' = exc
                           ELSE /\ nova' = nova /\ pc' = "except"
                                /\ exc' = Some(Exc("Exception", out[2]))
                  ELSE /\ nova' = "mock" /\ pc' = BodyPc("mock")
                       /\ constructed' = Append(constructed,
                              <<"MockNovaSession", starting_url>>)
                       /\ UNCHANGED <<hooks, exc>>
    /\ UNCHANGED <<max_retries, sdk, bedrock, session_active, op, inChain, task,
                   starting_url, capture_screenshots, schema, plan, attempt,
                   records, chainv, outcome, callerSet, acts, shot,
                   cexec, couts, nInputs,
                   sent, lines>>

\* mutant: a failed start is swallowed and the with-body runs
StartRaisedPcIntoBody == "act"

\* mutant: nova.start() sits before the try block, so a failed start skips finally
StartRaisedPcOutsideTry == "except"

\* nova.start() is inside the try block, so when it raises the finally
\* clause still runs nova.stop() (autopilot.py 99-104)
StartRaisedPc == "stop"

\* nova.start(); self._session_active = True; yield (autopilot.py 99-102)
StartSession ==
    /\ pc = "start"
    /\ \E out \in {Returned} \cup {Raised(m) : m \in StartMsgs} :
        /\ hooks' = [hooks EXCEPT !.start = out, !.nStart = @ + 1]
        /\ IF out = Returned
           THEN session_active' = TRUE /\ pc' = BodyPc("real") /\ exc' = exc
           ELSE /\ session_active' = session_active /\ pc' = StartRaisedPc
                /\ exc' = Some(Exc("Exception", out[2]))
    /\ UNCHANGED <<max_retries, sdk, nova_class, bedrock, op, inChain, task,
                   starting_url, capture_screenshots, schema, plan, nova, attempt,
                   records, chainv, outcome, callerSet, warnings, acts,
                   shot, cexec, couts, nInputs,
                   sent, lines, constructed>>

\* finally: nova.stop(); self._session_active = False (autopilot.py 103-105)
StopSession ==
    /\ pc = "stop"
    /\ \E out \in {Returned} \cup {Raised(m) : m \in StopMsgs} :
        /\ hooks' = [hooks EXCEPT !.stop = out, !.nStop = @ + 1]
        /\ IF out = Returned
           THEN /\ session_active' = FALSE /\ exc' = exc
                /\ pc' = IF exc = None THEN "ret" ELSE "except"
           ELSE /\ session_active' = session_active /\ pc' = "except"
                /\ exc' = Some(Exc("Exception", out[2]))
    /\ UNCHANGED <<max_retries, sdk, nova_class, bedrock, op, inChain, task,
                   starting_url, capture_screenshots, schema, plan, nova, attempt,
                   records, chainv, outcome, callerSet, warnings, acts,
                   shot, cexec, couts, nInputs,
                   sent, lines, constructed>>

\* mutant: the loop runs range(max_retries + 1)
LoopGoesOnOnceMore(att) == att + 1 <= max_retries

\* for attempt in range(self.max_retries): after the iteration with loop
\* variable att ended in the except clause, there is a next one (autopilot.py 211)
LoopGoesOn(att) == att + 1 < max_retries

\* mutant: act is handed the first step of the plan
ActArgFromPlan(t, p) == p.steps[1].action

\* nova.act(task): the argument of execute's act call (autopilot.py 213)
ActArg(t, p) == t

\* one iteration of execute's retry loop up to the screenshot (autopilot.py 211-219, 229-234)
Attempt ==
    /\ pc = "act" /\ op = "execute"
    /\ sent' = Append(sent, <<"act", ActArg(task, plan)>>)
    /\ \E out \in {Returned} \cup (IF nova = "real" THEN {Raised(m) : m \in ActMsgs} ELSE {}) :
        IF out = Returned
        THEN /\ result' = AttemptSucceeded(result,
                              IF nova = "real" THEN RealAct(ActArg(task, plan))
                              ELSE MockAct(ActArg(task, plan)), plan)
             /\ acts' = Append(acts, out)
             /\ pc' = IF capture_screenshots THEN "shot" ELSE LeavePc(nova, None)
             /\ UNCHANGED attempt
        ELSE /\ result' = AttemptFailed(result, attempt, Exc("Exception", out[2]))
             /\ acts' = Append(acts, out)
             /\ attempt' = attempt + 1
             /\ pc' = IF LoopGoesOn(attempt) THEN "act" ELSE LeavePc(nova, None)
    /\ UNCHANGED <<attrs, op, inChain, task, starting_url, capture_screenshots,
                   schema, plan, nova, exc, xresult, cresult, chainv, outcome,
                   callerSet, warnings, hooks, shot, cexec, couts, nInputs,
                   lines, constructed>>

\* the screenshot after a successful attempt, then break (autopilot.py 221-229)
Screenshot ==
    /\ pc = "shot" /\ op = "execute"
    /\ \E out \in IF nova = "real"
                  THEN {<<"ok", b>> : b \in Blobs} \cup {Raised(m) : m \in ShotMsgs}
                  ELSE {<<"ok", MockScreenshot>>} :
        /\ shot' = out
        /\ result' = IF out[1] = "ok" THEN KeepScreenshot(result, out[2]) ELSE result
    /\ sent' = Append(sent, <<"screenshot">>)
    /\ pc' = LeavePc(nova, None)
    /\ UNCHANGED <<attrs, op, inChain, task, starting_url, capture_screenshots,
                   schema, plan, nova, attempt, exc, xresult, cresult, chainv,
                   outcome, callerSet, warnings, hooks, acts, cexec, couts,
                   nInputs,
                   lines, constructed>>

\* mutant: execute lacks the outer except clause
CatchesExtractOnly(o) == o = "extract"

\* the public methods whose body is wrapped in try/except Exception
\* (autopilot.py 202/236 and 265/288); chain and interactive have none
Catches(o) == o \in {"execute", "extract"}

\* except Exception as e: result.error = str(e) (autopilot.py 236-238)
ExecuteExcept ==
    /\ pc = "except" /\ op = "execute" /\ Catches(op)
    /\ result' = ExecuteCaught(result, exc[1])
    /\ exc' = None
    /\ pc' = "ret"
    /\ UNCHANGED <<attrs, op, inChain, task, starting_url, capture_screenshots,
                   schema, plan, nova, attempt, xresult, cresult, chainv, outcome,
                   ghost>>

\* return result (autopilot.py 240-243), to chain or to the caller
ExecuteReturn ==
    /\ pc = "ret" /\ op = "execute"
    /\ IF inChain
       THEN /\ pc' = "c_after" /\ op' = "chain" /\ couts' = Append(couts, result)
            /\ UNCHANGED <<done, raised>>
       ELSE /\ pc' = "idle" /\ op' = "none" /\ done' = "execute" /\ raised' = FALSE
            /\ couts' = couts
    /\ UNCHANGED <<attrs, inChain, task, starting_url, capture_screenshots, schema,
                   plan, nova, attempt, exc, records, chainv, calls, callerSet,
                   warnings, hooks, acts, shot, cexec, nInputs,
                   sent, lines, constructed>>

\* ---------------------------------------------------------------- chain
\* mutant: the chain's success follows the last task instead of staying false
ChainRecordLastWins(c, r) ==
    IF r.success
    THEN [c EXCEPT !.results = Append(@, r), !.tasks_completed = @ + 1,
                   !.success = TRUE]
    ELSE [c EXCEPT !.results = Append(@, r), !.tasks_failed = @ + 1,
                   !.success = FALSE]

\* mutant: a failed task is counted but its result is not appended
ChainRecordDropsFailed(c, r) ==
    IF r.success
    THEN [c EXCEPT !.results = Append(@, r), !.tasks_completed = @ + 1]
    ELSE [c EXCEPT !.tasks_failed = @ + 1, !.success = FALSE]

\* mutant: a failed task is counted but leaves the chain's success flag alone
ChainRecordKeepsSuccess(c, r) ==
    IF r.success
    THEN [c EXCEPT !.results = Append(@, r), !.tasks_completed = @ + 1]
    ELSE [c EXCEPT !.results = Append(@, r), !.tasks_failed = @ + 1]

\* the loop body of chain after execute returned (autopilot.py 319-325)
ChainRecord(c, r) ==
    IF r.success
    THEN [c EXCEPT !.results = Append(@, r), !.tasks_completed = @ + 1]
    ELSE [c EXCEPT !.results = Append(@, r), !.tasks_failed = @ + 1,
                   !.success = FALSE]

\* mutant: the flag is ignored and the loop never breaks
ChainNeverBreaks(r, sof) == FALSE

\* mutant: the flag is ignored and the loop breaks at every failure
ChainAlwaysBreaks(r, sof) == ~r.success

\* if stop_on_failure: break (autopilot.py 321-327)
ChainBreaks(r, sof) == ~r.success /\ sof

\* pilot.chain(tasks, starting_url, stop_on_failure) (autopilot.py 312-315)
CallChain ==
    /\ pc = "idle" /\ done = "none" /\ calls < MaxCalls
    /\ \E k \in 0..MaxChain, url \in Urls, sof \in BOOLEAN :
        /\ tasks' = ChainTasks(k) /\ starting_url' = url /\ stop_on_failure' = sof
    /\ cidx' = 1 /\ cresult' = ChainResult(TRUE) /\ cexec' = <<>> /\ couts' = <<>>
    /\ constructed' = <<>>
    /\ op' = "chain" /\ inChain' = TRUE /\ pc' = "c_loop"
    /\ done' = "none" /\ raised' = FALSE /\ calls' = calls + 1
    /\ ResetSession /\ ResetExecute /\ ResetExtract /\ ResetInteractive
    /\ UNCHANGED <<attrs, callerSet, warnings>>

\* for task in tasks: self.execute(task, starting_url=current_url) (autopilot.py 317-318)
ChainNext ==
    /\ pc = "c_loop" /\ cidx <= Len(tasks)
    /\ ExecuteFrame(tasks[cidx], starting_url, TRUE)
    /\ cexec' = Append(cexec, tasks[cidx])
    /\ UNCHANGED <<attrs, inChain, schema, xresult, cresult, chainv, outcome,
                   callerSet, warnings, couts, nInputs,
                   lines, constructed>>

\* append the result, count it, break or go on (autopilot.py 319-327)
ChainCollect ==
    /\ pc = "c_after"
    /\ cresult' = ChainRecord(cresult, result)
    /\ IF ChainBreaks(result, stop_on_failure)
       THEN pc' = "c_ret" /\ cidx' = cidx
       ELSE pc' = "c_loop" /\ cidx' = cidx + 1
    /\ UNCHANGED <<attrs, op, inChain, task, starting_url, capture_screenshots,
                   schema, plan, nova, attempt, exc, result, xresult, tasks,
                   stop_on_failure, outcome, ghost>>

\* the loop is over: return result (autopilot.py 329-330)
ChainReturn ==
    /\ \/ pc = "c_ret"
       \/ pc = "c_loop" /\ cidx > Len(tasks)
    /\ pc' = "idle" /\ op' = "none" /\ inChain' = FALSE
    /\ done' = "chain" /\ raised' = FALSE
    /\ UNCHANGED <<attrs, task, starting_url, capture_screenshots, schema, plan,
                   nova, attempt, exc, records, chainv, calls, ghost>>

\* -------------------------------------------------------------- extract
\* schema arguments: None, the empty dict (falsy) and a non-empty schema
Schemas == {"None", "{}", "object"}
Truthy(sch) == sch = "object"

\* raw strings a session's act may return, and json.loads of them
RawStrs == {"[1]", "not json"}
JsonLoads(raw) ==
    IF raw = "[1]" THEN Returned \o <<[kind |-> "list", data |-> <<1>>]>>
    ELSE Raised("Expecting value: line 1 column 1 (char 0)")

\* f"{task}. Return the result as JSON." (autopilot.py 272)
JsonPrompt(t) == <<t, ". Return the result as JSON.">>

\* the call extract makes on the handle, with its argument (autopilot.py 268-272)
ExtractCall(t, has) == IF has THEN <<"act_get", t>> ELSE <<"act", JsonPrompt(t)>>

\* hasattr(nova, "act_get") (autopilot.py 268): the mock session has the
\* method (autopilot.py 389), a real session class may or may not
HasActGet(h) == IF h = "mock" THEN {TRUE} ELSE BOOLEAN

\* what the extraction call may do on handle h (autopilot.py 268-273): with
\* act_get, the call returns or raises; without, act returns a string that
\* json.loads parses or rejects, or a structure, or raises
ExtractOutcomes(t, h, has) ==
    IF h = "mock" THEN {<<"ok", MockActGet(t)>>}
    ELSE IF has THEN {<<"ok", RealActGet(t)>>} \cup {Raised(m) : m \in ActMsgs}
    ELSE {JsonLoads(raw) : raw \in RawStrs}
         \cup {<<"ok", RealAct(t)>>}
         \cup {Raised(m) : m \in ActMsgs}

\* result.data = data; result.success = True (autopilot.py 275-276)
Extracted(x, data) == [x EXCEPT !.data = data, !.success = TRUE]

\* mutant: the data is validated also when no schema is given
ValidatedWithoutSchema(x, sch, valid) == [x EXCEPT !.schema_validated = valid]

\* what jsonschema's validate raises on non-conforming data
ValidationMsg == "data is not valid under the schema"

\* the validation block (autopilot.py 279-286)
Validated(x, sch, valid) ==
    IF Truthy(sch) THEN [x EXCEPT !.schema_validated = valid] ELSE x

\* mutant: the except clause leaves the result as it is
ExtractCaughtSilent(x, e) == x

\* except Exception as e: result.error = str(e) (autopilot.py 288-290)
ExtractCaught(x, e) == [x EXCEPT !.error = Some(Str(e))]

\* pilot.extract(task, starting_url, schema) (autopilot.py 262-266)
CallExtract ==
    /\ pc = "idle" /\ done = "none" /\ calls < MaxCalls
    /\ \E t \in Tasks, url \in Urls, sch \in Schemas :
        /\ task' = t /\ starting_url' = url /\ schema' = sch
        /\ xresult' = ExtractResult(FALSE, url)
    /\ op' = "extract" /\ inChain' = FALSE /\ pc' = "open"
    /\ done' = "none" /\ raised' = FALSE /\ calls' = calls + 1
    /\ capture_screenshots' = TRUE /\ result' = TaskResult(FALSE)
    /\ ResetSession /\ ResetChain /\ ResetInteractive
    /\ UNCHANGED <<attrs, callerSet, warnings>>

\* the with-body of extract (autopilot.py 267-286)
ExtractBody ==
    /\ pc = "x_body" /\ op = "extract"
    /\ \E has \in HasActGet(nova), valid \in BOOLEAN :
       \E out \in ExtractOutcomes(task, nova, has) :
        /\ acts' = Append(acts, out)
        /\ sent' = Append(sent, ExtractCall(task, has))
        /\ IF out[1] = "ok"
           THEN /\ xresult' = Validated(Extracted(xresult, out[2]), schema, valid)
                /\ hooks' = [hooks EXCEPT
                       !.via = IF has THEN "act_get" ELSE "act",
                       !.validate = IF ~Truthy(schema) THEN NotCalled
                                    ELSE IF valid THEN Returned
                                    ELSE Raised(ValidationMsg)]
                /\ pc' = LeavePc(nova, None)
                /\ UNCHANGED exc
           ELSE /\ exc' = Some(Exc("Exception", out[2]))
                /\ hooks' = [hooks EXCEPT !.via = IF has THEN "act_get" ELSE "act"]
                /\ pc' = LeavePc(nova, exc')
                /\ UNCHANGED xresult
    /\ UNCHANGED <<attrs, op, inChain, task, starting_url, capture_screenshots,
                   schema, plan, nova, attempt, result, cresult, chainv, outcome,
                   callerSet, warnings, shot, cexec, couts, nInputs,
                   lines, constructed>>

ExtractExcept ==
    /\ pc = "except" /\ op = "extract" /\ Catches(op)
    /\ xresult' = ExtractCaught(xresult, exc[1])
    /\ exc' = None
    /\ pc' = "ret"
    /\ UNCHANGED <<attrs, op, inChain, task, starting_url, capture_screenshots,
                   schema, plan, nova, attempt, result, cresult, chainv, outcome,
                   ghost>>

\* return result (autopilot.py 292-293)
ExtractReturn ==
    /\ pc = "ret" /\ op = "extract"
    /\ pc' = "idle" /\ op' = "none" /\ done' = "extract" /\ raised' = FALSE
    /\ UNCHANGED <<attrs, inChain, task, starting_url, capture_screenshots, schema,
                   plan, nova, attempt, exc, records, chainv, calls, ghost>>

\* ---------------------------------------------------------- interactive
\* lines the operator may type, and str.lower of them
Inputs == {"quit", "Exit", "screenshot", "A"}
Lower(line) ==
    CASE line = "Exit" -> "exit"
      [] line = "A" -> "a"
      [] OTHER -> line

\* mutant: the screenshot command is not recognised and goes to act
DispatchNoScreenshot(line) ==
    IF Lower(line) \in {"quit", "exit", "q"} THEN "break" ELSE "act"

\* the branch of the loop body a line is handed to (autopilot.py 352-362)
Dispatch(line) ==
    IF Lower(line) \in {"quit", "exit", "q"} THEN "break"
    ELSE IF Lower(line) = "screenshot" THEN "screenshot"
    ELSE "act"

\* pilot.interactive(starting_url) (autopilot.py 339-347)
CallInteractive ==
    /\ pc = "idle" /\ done = "none" /\ calls < MaxCalls
    /\ \E url \in Urls : starting_url' = url
    /\ op' = "interactive" /\ inChain' = FALSE /\ pc' = "open"
    /\ done' = "none" /\ raised' = FALSE /\ calls' = calls + 1
    /\ nInputs' = 0 /\ lines' = <<>>
    /\ ResetSession /\ ResetExecute /\ ResetExtract /\ ResetChain
    /\ UNCHANGED <<attrs, callerSet, warnings>>

\* one turn of the while loop (autopilot.py 348-367)
InteractiveStep ==
    /\ pc = "prompt" /\ op = "interactive"
    /\ \E line \in Inputs \cup {"KeyboardInterrupt"},
          out \in {Returned} \cup (IF nova = "real" THEN {Raised(m) : m \in ActMsgs} ELSE {}) :
        /\ nInputs < MaxInputs \/ line = "KeyboardInterrupt" \/ Dispatch(line) = "break"
        /\ IF line = "KeyboardInterrupt" \/ Dispatch(line) = "break"
           THEN /\ pc' = LeavePc(nova, None)
                /\ lines' = IF line = "KeyboardInterrupt" THEN lines
                            ELSE Append(lines, line)
                /\ UNCHANGED <<nInputs, acts, shot, sent>>
           ELSE /\ pc' = "prompt"
                /\ nInputs' = nInputs + 1
                /\ lines' = Append(lines, line)
                /\ IF Dispatch(line) = "screenshot"
                   THEN /\ shot' = out /\ acts' = acts
                        /\ sent' = Append(sent, <<"screenshot">>)
                   ELSE /\ acts' = Append(acts, out) /\ shot' = shot
                        /\ sent' = Append(sent, <<"act", line>>)
    /\ UNCHANGED <<attrs, op, inChain, task, starting_url, capture_screenshots,
                   schema, plan, nova, attempt, exc, records, chainv, outcome,
                   callerSet, warnings, hooks, cexec, couts,
                   constructed>>

\* console.print("Session ended") and return (autopilot.py 369)
InteractiveReturn ==
    /\ pc = "ret" /\ op = "interactive"
    /\ pc' = "idle" /\ op' = "none" /\ done' = "interactive" /\ raised' = FALSE
    /\ UNCHANGED <<attrs, inChain, task, starting_url, capture_screenshots, schema,
                   plan, nova, attempt, exc, records, chainv, calls, ghost>>

\* an exception no except clause of the running method catches leaves the
\* public call: interactive's with statement is in no try block
\* (autopilot.py 347), and chain has none around execute (autopilot.py 317-318)
Propagate ==
    /\ pc = "except" /\ ~Catches(op)
    /\ pc' = "idle" /\ op' = "none" /\ raised' = TRUE
    /\ done' = IF inChain THEN "chain" ELSE op
    /\ inChain' = FALSE
    /\ UNCHANGED <<attrs, task, starting_url, capture_screenshots, schema,
                   plan, nova, attempt, exc, records, chainv, calls, ghost>>

Next ==
    \/ SetNovaClass
    \/ CallerTakes
    \/ CallExecute
    \/ PlanTask
    \/ OpenSession
    \/ StartSession
    \/ StopSession
    \/ Attempt
    \/ Screenshot
    \/ ExecuteExcept
    \/ ExecuteReturn
    \/ CallChain
    \/ ChainNext
    \/ ChainCollect
    \/ ChainReturn
    \/ CallExtract
    \/ ExtractBody
    \/ ExtractExcept
    \/ ExtractReturn
    \/ CallInteractive
    \/ InteractiveStep
    \/ InteractiveReturn
    \/ Propagate

Spec == Init /\ [][Next]_vars

\* The object used for direct execute calls only.  The code is sequential:
\* a running call takes its next step as soon as the collaborator call it
\* waits for has returned or raised, which is weak fairness of its steps.
ExecuteStep ==
    \/ PlanTask
    \/ OpenSession
    \/ StartSession
    \/ StopSession
    \/ Attempt
    \/ Screenshot
    \/ ExecuteExcept
    \/ ExecuteReturn

ExecuteNext ==
    \/ SetNovaClass
    \/ CallerTakes
    \/ CallExecute
    \/ ExecuteStep

FairExecute == Init /\ [][ExecuteNext]_vars /\ WF_vars(ExecuteStep)

\* The object used for interactive sessions only.
InteractiveNext ==
    \/ SetNovaClass
    \/ CallerTakes
    \/ CallInteractive
    \/ OpenSession
    \/ StartSession
    \/ StopSession
    \/ InteractiveStep
    \/ InteractiveReturn
    \/ Propagate

SpecInteractive == Init /\ [][InteractiveNext]_vars

\* ================================================================ claims
\* execute has returned its TaskResult (to the caller, or to chain)
ExecuteReturned == (pc = "idle" /\ done = "execute" /\ ~raised) \/ pc = "c_after"

\* the execute that returned ran its loop on a started real session
RealYielded == hooks.start = Returned

IsRaised(out) == Len(out) = 2 /\ out[1] = "raise"

\* every act call of the running execute raised
AllActsRaised == \A j \in 1..Len(acts) : IsRaised(acts[j])

\* C1: every TaskResult execute returns has success=true only with error unset,
\* whatever start, act, screenshot and stop do.  (Stated as claimed; the code
\* breaks it when stop raises after a successful attempt.)
C1_SuccessImpliesNoError ==
    ExecuteReturned => (result.success => result.error = None)

\* C2: every TaskResult execute returns with success=false carries a non-empty
\* error string, whatever max_retries is.  (Stated as claimed; the code breaks
\* it for max_retries = 0 and for an exception whose message is empty.)
C2_FailureHasError ==
    ExecuteReturned =>
        (~result.success => result.error # None /\ result.error # Some(""))

\* C3 as claimed: with max_retries = N >= 1 and every act call raising, execute
\* makes N act calls, fails, and error is the N-th attempt's message.
C3_Original ==
    (ExecuteReturned /\ max_retries >= 1 /\ RealYielded /\ AllActsRaised) =>
        /\ Len(acts) = max_retries
        /\ ~result.success
        /\ result.error = Some(acts[max_retries][2])

\* C3 amended: as above, except that when the stop hook then raises, error is
\* the stop hook's message instead of the N-th attempt's.
C3_LastAttemptError ==
    (ExecuteReturned /\ max_retries >= 1 /\ RealYielded /\ AllActsRaised) =>
        /\ Len(acts) = max_retries
        /\ ~result.success
        /\ result.error = IF IsRaised(hooks.stop) THEN Some(hooks.stop[2])
                          ELSE Some(acts[max_retries][2])

\* two attempts with different messages, the second one surfaced
C3_Witness ==
    /\ pc = "idle" /\ done = "execute" /\ max_retries = 2
    /\ acts = <<Raised("E1"), Raised("")>>
    /\ hooks.stop = Returned
    /\ result.error = Some("")

\* C4: a real session whose start hook was invoked is stopped exactly once
\* before the operation returns, on every exit path; stop is never invoked
\* without start, and never twice.
C4_Teardown ==
    /\ hooks.nStart <= 1
    /\ hooks.nStop <= hooks.nStart
    /\ pc \in {"ret", "except", "idle", "c_after", "c_loop", "c_ret"} =>
           hooks.nStop = hooks.nStart

\* start itself raised inside extract, and stop was still invoked
C4_Witness ==
    /\ pc = "idle" /\ done = "extract"
    /\ IsRaised(hooks.start) /\ hooks.nStart = 1 /\ hooks.nStop = 1

\* C5: on a fresh orchestrator (no private attribute assigned by the caller)
\* without the SDK, execute reaches the act call on the mock handle and
\* returns success=true.  (Stated as claimed; the code raises AttributeError
\* on the unset _nova_class before _init_nova is ever called.)
C5_FreshInstanceOpens ==
    (ExecuteReturned /\ ~callerSet /\ ~sdk /\ max_retries >= 1) =>
        (nova = "mock" /\ Len(acts) = 1 /\ result.success)

C7_MockExecute ==
    (ExecuteReturned /\ callerSet /\ ~sdk /\ max_retries >= 1) =>
        /\ nova = "mock"
        /\ Len(acts) = 1
        /\ result.success
        /\ result.data = Some([status |-> "mock", task |-> task])
        /\ result.error = None

C7_Witness ==
    /\ pc = "idle" /\ done = "execute" /\ callerSet /\ ~sdk /\ max_retries = 2
    /\ task = "B" /\ result.data = Some([status |-> "mock", task |-> "B"])

\* chain has returned its ChainResult
ChainReturned == pc = "idle" /\ done = "chain" /\ ~raised

\* the first execute of the chain that returned success=false (0 if none)
FirstFailed ==
    IF \E j \in 1..Len(couts) : ~couts[j].success
    THEN CHOOSE j \in 1..Len(couts) :
             ~couts[j].success /\ \A h \in 1..(j - 1) : couts[h].success
    ELSE 0

\* C8: with stop_on_failure=true, when task i is the first to fail, chain
\* returns tasks_completed = i-1, tasks_failed = 1, len(results) = i and
\* execute was called for tasks 1..i only.
C8_StopOnFailure ==
    (ChainReturned /\ stop_on_failure /\ FirstFailed > 0) =>
        /\ cresult.tasks_completed = FirstFailed - 1
        /\ cresult.tasks_failed = 1
        /\ Len(cresult.results) = FirstFailed
        /\ Len(cexec) = FirstFailed

\* the first of two tasks failed and the second was never executed
C8_Witness ==
    /\ ChainReturned /\ stop_on_failure /\ Len(tasks) = 2
    /\ FirstFailed = 1 /\ cexec = <<"A">>

\* C9: with stop_on_failure=false every task is executed once, in list order,
\* and results[j] is the TaskResult of the j-th task.
C9_RunsAll ==
    (ChainReturned /\ ~stop_on_failure) =>
        /\ cexec = tasks
        /\ Len(cresult.results) = Len(tasks)
        /\ cresult.results = couts

\* the first of two tasks failed and the second still ran and succeeded
C9_Witness ==
    /\ ChainReturned /\ ~stop_on_failure /\ Len(tasks) = 2
    /\ ~cresult.results[1].success /\ cresult.results[2].success
    /\ cresult.results[2].data = Some(RealAct("B"))

\* C10: the ChainResult's success is true exactly when every TaskResult in
\* results has success=true, which is exactly when tasks_failed = 0.
C10_ChainSuccess ==
    ChainReturned =>
        /\ cresult.success <=>
               \A j \in 1..Len(cresult.results) : cresult.results[j].success
        /\ cresult.success <=> cresult.tasks_failed = 0

\* a failure followed by a success leaves the chain failed
C10_Witness ==
    /\ ChainReturned /\ ~cresult.success /\ Len(cresult.results) = 2
    /\ ~cresult.results[1].success /\ cresult.results[2].success

\* the positions of results holding a TaskResult with the given success
ResultsWith(c, b) == {j \in 1..Len(c.results) : c.results[j].success = b}

\* C11: every ChainResult chain returns has tasks_completed + tasks_failed =
\* len(results), tasks_completed being the number of results with success=true
\* and tasks_failed the number with success=false.
C11_Counts ==
    ChainReturned =>
        /\ cresult.tasks_completed + cresult.tasks_failed = Len(cresult.results)
        /\ cresult.tasks_completed = Cardinality(ResultsWith(cresult, TRUE))
        /\ cresult.tasks_failed = Cardinality(ResultsWith(cresult, FALSE))

\* one task of each kind was counted
C11_Witness ==
    /\ ChainReturned /\ Len(cresult.results) = 2
    /\ cresult.tasks_completed = 1 /\ cresult.tasks_failed = 1
    /\ cresult.results[1].success /\ ~cresult.results[2].success

\* every execute the chain called returned success=true
AllExecutesSucceeded == \A j \in 1..Len(couts) : couts[j].success

\* C12: all_succeeded is true iff tasks_failed = 0 and tasks_completed > 0; it
\* is true for a chain of k >= 1 tasks that all succeed (tasks_completed = k,
\* tasks_failed = 0) and false for the result of chain on an empty task list.
C12_AllSucceeded ==
    ChainReturned =>
        /\ all_succeeded(cresult) <=>
               (cresult.tasks_failed = 0 /\ cresult.tasks_completed > 0)
        /\ (Len(tasks) >= 1 /\ Len(couts) = Len(tasks) /\ AllExecutesSucceeded) =>
               /\ all_succeeded(cresult)
               /\ cresult.tasks_completed = Len(tasks)
               /\ cresult.tasks_failed = 0
        /\ all_succeeded(cresult) => (Len(couts) >= 1 /\ AllExecutesSucceeded)
        /\ tasks = <<>> => ~all_succeeded(cresult)

\* a chain of two tasks that both succeeded
C12_Witness ==
    /\ ChainReturned /\ Len(tasks) = 2 /\ AllExecutesSucceeded
    /\ cresult.tasks_completed = 2 /\ all_succeeded(cresult)

\* the planner of the running execute has returned
Planned == op = "execute" /\ pc # "plan"

\* C13: the planner never raises, and whenever the LLM client is unavailable
\* or its call or the parsing of its response fails, the plan is for the same
\* task with exactly one step {action: "execute", value: task},
\* estimated_duration = 30.0, requires_auth = false, human_review_needed = false.
C13_PlannerFallback ==
    /\ (op = "execute" /\ pc = "open") => exc = None
    /\ Planned =>
        /\ plan.task = task
        /\ hooks.llm # Returned =>
               /\ plan.steps = <<[action |-> "execute", value |-> Some(task)]>>
               /\ plan.estimated_duration = 30
               /\ ~plan.requires_auth
               /\ ~plan.human_review_needed

\* the client exists, the parsing of its response failed, the plan is the fallback
C13_Witness ==
    /\ op = "execute" /\ pc = "open" /\ bedrock = "client" /\ task = "B"
    /\ hooks.llm = Raised("Expecting value: line 1 column 1 (char 0)")
    /\ Len(plan.steps) = 1 /\ plan.steps[1].value = Some("B")

\* extract has returned its ExtractResult
ExtractReturned == pc = "idle" /\ done = "extract" /\ ~raised

\* the extraction call of the returned extract produced a value
ExtractedValue == Len(acts) = 1 /\ acts[1][1] = "ok"

\* C14: when extract is called with a schema and the extracted data does not
\* conform to it, the ExtractResult has success=true, schema_validated=false,
\* data equal to the extracted value and error unset.  (Stated as claimed; the
\* code sets error when the stop hook raises after the validation.)
C14_ValidationFailureKeepsSuccess ==
    (ExtractReturned /\ IsRaised(hooks.validate)) =>
        /\ xresult.success
        /\ ~xresult.schema_validated
        /\ ExtractedValue /\ xresult.data = acts[1][2]
        /\ xresult.error = None

\* C15: schema_validated=true only if a schema was supplied and validation of
\* the extracted data passed; it is false whenever no schema is given and
\* whenever success=false.
C15_SchemaValidated ==
    ExtractReturned =>
        /\ xresult.schema_validated =>
               /\ schema # "None"
               /\ hooks.validate = Returned
               /\ ExtractedValue /\ xresult.data = acts[1][2]
        /\ schema = "None" => ~xresult.schema_validated
        /\ ~xresult.success => ~xresult.schema_validated

\* a schema was given and the extracted data passed validation
C15_Witness ==
    /\ ExtractReturned /\ schema = "object" /\ hooks.validate = Returned
    /\ xresult.success /\ xresult.schema_validated

\* the exception raised by session opening, by the extraction call or by
\* json.loads in the extract that returned, if any
ExtractFailures ==
    (IF nova_class = "unset" THEN {AttributeErrorMsg} ELSE {})
    \cup (IF IsRaised(hooks.construct) THEN {hooks.construct[2]} ELSE {})
    \cup (IF IsRaised(hooks.start) THEN {hooks.start[2]} ELSE {})
    \cup (IF acts # <<>> /\ IsRaised(acts[1]) THEN {acts[1][2]} ELSE {})

\* C17 as claimed: extract never raises, and when session opening, the
\* act_get/act call or json.loads raises, the ExtractResult has success=false,
\* error = the exception's message and data at its default empty value.
C17_Original ==
    /\ done = "extract" => ~raised
    /\ ExtractReturned =>
        \A m \in ExtractFailures :
            /\ ~xresult.success
            /\ xresult.error = Some(m)
            /\ xresult.data = [kind |-> "dict"]

\* C17 amended: as above, except that when the stop hook then raises too,
\* error is the stop hook's message instead.
C17_ExtractNeverRaises ==
    /\ done = "extract" => ~raised
    /\ ExtractReturned =>
        \A m \in ExtractFailures :
            /\ ~xresult.success
            /\ xresult.error = IF IsRaised(hooks.stop) THEN Some(hooks.stop[2])
                                ELSE Some(m)
            /\ xresult.data = [kind |-> "dict"]

\* act returned a string that json.loads rejected; its message is the error
C17_Witness ==
    /\ ExtractReturned /\ hooks.via = "act" /\ hooks.stop = Returned
    /\ acts = <<Raised("Expecting value: line 1 column 1 (char 0)")>>
    /\ xresult.error = Some("Expecting value: line 1 column 1 (char 0)")

\* C18: in mock mode (the caller set _nova_class to None, no SDK) extract
\* returns success=true, source_url = the starting_url argument and
\* data = {data: [], status: "mock"}, obtained from act_get (act is not called).
C18_MockExtract ==
    (ExtractReturned /\ callerSet /\ ~sdk) =>
        /\ nova = "mock"
        /\ xresult.success
        /\ xresult.source_url = starting_url
        /\ xresult.data = [data |-> <<>>, status |-> "mock"]
        /\ hooks.via = "act_get" /\ Len(acts) = 1

C18_Witness ==
    /\ ExtractReturned /\ callerSet /\ ~sdk /\ task = "B"
    /\ starting_url = Some("https://example.com")
    /\ xresult.source_url = Some("https://example.com")
    /\ xresult.data = [data |-> <<>>, status |-> "mock"]

\* C16: when an act attempt succeeds and the following screenshot call
\* raises, execute returns success=true, data = the act result and error
\* unset, makes no further act attempt, and records no screenshot.  (Stated as
\* claimed; the code sets error when the stop hook raises afterwards.)
C16_ScreenshotFailureSwallowed ==
    (ExecuteReturned /\ IsRaised(shot)) =>
        /\ result.success
        /\ result.data = Some(RealAct(task))
        /\ result.error = None
        /\ acts # <<>> /\ acts[Len(acts)] = Returned
        /\ \A j \in 1..(Len(acts) - 1) : IsRaised(acts[j])
        /\ result.screenshots = <<>>

\* C19: the number of act calls of an execute is at most max_retries; a
\* success on attempt j means exactly j act calls were made, the first j-1
\* raising, and none follows; and, every collaborator call returning or
\* raising, every execute call terminates and returns its TaskResult.
C19_BoundedAttempts ==
    /\ [](op = "execute" =>
            /\ Len(acts) <= max_retries
            /\ \A j \in 1..Len(acts) : acts[j] = Returned => j = Len(acts)
            /\ result.success <=> (acts # <<>> /\ acts[Len(acts)] = Returned))
    /\ (op = "execute") ~> (pc = "idle" /\ done = "execute" /\ ~raised)

\* the second of two attempts succeeded: two act calls, then the return
C19_Witness ==
    /\ pc = "idle" /\ done = "execute" /\ ~raised /\ max_retries = 2
    /\ acts = <<Raised("E1"), Returned>> /\ result.success

\* an execute call is running or has just returned its TaskResult
InExecute == op = "execute" \/ ExecuteReturned

\* the start hook of the session the running call works on has returned
\* (the mock session is yielded without a start call)
SessionStarted == nova = "mock" \/ (nova = "real" /\ hooks.start = Returned)

\* C20: within every execute call the plan is obtained before the session is
\* constructed; no act or screenshot call happens before start has returned
\* or after stop has been called; the screenshot follows the successful act
\* only; all attempts work on the single session opened for the call; when
\* start raises no act call is made; and the call returns after stop.
C20_Order ==
    /\ [](InExecute =>
            /\ pc = "plan" =>
                   /\ nova = "none" /\ hooks.construct = NotCalled
                   /\ hooks.nStart = 0 /\ acts = <<>> /\ shot = NotCalled
            /\ (nova # "none" \/ hooks.construct # NotCalled) =>
                   (plan # NoPlan /\ plan.task = task)
            /\ (acts # <<>> \/ shot # NotCalled \/ pc \in {"act", "shot"}) =>
                   SessionStarted
            /\ pc \in {"act", "shot"} => hooks.stop = NotCalled
            /\ shot # NotCalled => (acts # <<>> /\ acts[Len(acts)] = Returned)
            /\ IsRaised(hooks.start) => (acts = <<>> /\ shot = NotCalled)
            /\ hooks.nStart <= 1
            /\ (pc = "ret" \/ ExecuteReturned) => hooks.nStop = hooks.nStart)
    /\ [][(op = "execute" /\ (Len(acts') > Len(acts) \/ shot' # shot)) =>
              /\ SessionStarted /\ hooks.stop = NotCalled
              /\ nova' = nova /\ hooks' = hooks /\ plan' = plan]_vars

\* a real session: plan, start, a failed and a successful act, a screenshot,
\* stop, return
C20_Witness ==
    /\ pc = "idle" /\ done = "execute" /\ ~raised
    /\ plan # NoPlan /\ hooks.start = Returned /\ hooks.stop = Returned
    /\ Len(acts) = 2 /\ acts[2] = Returned /\ shot = <<"ok", "PNG">>

\* the act and screenshot calls of an execute on task t whose act calls ended
\* as outs and whose screenshot call ended as sh
ExpectedCalls(t, outs, sh) ==
    [j \in 1..Len(outs) |-> <<"act", t>>]
    \o (IF sh = NotCalled THEN <<>> ELSE << <<"screenshot">> >>)

\* the error of the TaskResult as the collaborators' outcomes alone decide it
ExpectedError ==
    IF nova_class = "unset" THEN Some(AttributeErrorMsg)
    ELSE IF IsRaised(hooks.construct) THEN Some(hooks.construct[2])
    ELSE IF IsRaised(hooks.stop) THEN Some(hooks.stop[2])
    ELSE IF IsRaised(hooks.start) THEN Some(hooks.start[2])
    ELSE IF acts # <<>> /\ Len(acts) = max_retries /\ IsRaised(acts[Len(acts)])
         THEN Some(acts[Len(acts)][2])
    ELSE None

\* C21: the plan is advisory only.  The session calls an execute makes and its
\* success, data and error are decided by the task and by what the session's
\* hooks did, whatever plan the planner returned: every act call receives the
\* unmodified task string, and human_review_needed=true never blocks or skips
\* the execution.
C21_PlanAdvisory ==
    /\ Planned => sent = ExpectedCalls(task, acts, shot)
    /\ ExecuteReturned =>
        /\ result.success <=> (acts # <<>> /\ acts[Len(acts)] = Returned)
        /\ result.data = IF ~result.success THEN None
                          ELSE IF nova = "real" THEN Some(RealAct(task))
                          ELSE Some(MockAct(task))
        /\ result.error = ExpectedError
        /\ (plan.human_review_needed /\ max_retries >= 1
               /\ (nova = "mock" \/ hooks.start = Returned)) => acts # <<>>

\* the LLM's plan asked for human review, and the task was executed as given
C21_Witness ==
    /\ pc = "idle" /\ done = "execute" /\ ~raised /\ task = "B"
    /\ hooks.llm = Returned /\ plan.human_review_needed
    /\ result.success /\ result.steps_taken = <<"navigate", "click">>
    /\ sent = << <<"act", "B">>, <<"screenshot">> >>

\* C22: in every TaskResult execute returns, steps_taken is the ordered list of
\* the plan's step action names when success=true and empty when no attempt
\* succeeded; data is the value the successful act call returned when
\* success=true and unset when no attempt succeeded.
C22_StepsAndData ==
    ExecuteReturned =>
        IF result.success
        THEN /\ Len(result.steps_taken) = Len(plan.steps)
             /\ \A j \in 1..Len(plan.steps) :
                    result.steps_taken[j] = plan.steps[j].action
             /\ acts # <<>> /\ acts[Len(acts)] = Returned
             /\ result.data = Some(IF nova = "real"
                                    THEN [status |-> "done", task |-> task]
                                    ELSE [status |-> "mock", task |-> task])
        ELSE /\ result.steps_taken = <<>>
             /\ result.data = None
             /\ AllActsRaised

\* a two-step plan whose action names were recorded after the second attempt
C22_Witness ==
    /\ pc = "idle" /\ done = "execute" /\ ~raised /\ result.success
    /\ Len(plan.steps) = 2 /\ result.steps_taken = <<"navigate", "click">>
    /\ acts = <<Raised(""), Returned>>
    /\ result.data = Some([status |-> "done", task |-> "A"])

\* a chain call is running or has just returned
InChain == op = "chain" \/ inChain \/ ChainReturned

\* the constructor call a session opened for starting_url url is made with
SessionArgs(url) == {<<"NovaAct", StartingPage(url)>>, <<"MockNovaSession", url>>}

\* C23: chain runs its tasks one after another, each in its own session opened
\* with the starting_url passed to chain: a chain that attempted m tasks made
\* exactly m session constructor calls, each with that starting_url; the
\* session of a task is stopped before the next task begins, and no two
\* sessions are open at once.  (Stated as claimed; on an orchestrator whose
\* _nova_class was never assigned no session is constructed at all.)
C23_ChainSessions ==
    InChain =>
        /\ \A j \in 1..Len(constructed) : constructed[j] \in SessionArgs(starting_url)
        /\ Len(constructed) <= Len(cexec)
        /\ hooks.nStart <= 1 /\ hooks.nStop <= hooks.nStart
        /\ pc \in {"c_loop", "c_after", "c_ret", "idle", "plan", "open"} =>
               hooks.nStop = hooks.nStart
        /\ pc \in {"c_loop", "c_after", "c_ret", "idle"} =>
               Len(constructed) = Len(cexec)

\* C24: while the SDK is unavailable the mock-mode warning is logged exactly
\* once on one orchestrator, at the first fallback, and not again on later
\* session opens.  (Stated as claimed; the code logs it on every session open.)
C24_WarnsOnce ==
    ~sdk =>
        /\ warnings <= 1
        /\ nova = "mock" => warnings = 1

\* C25: execute and extract leave every attribute of the orchestrator
\* unchanged, so no mutable state is carried from one call to the next: after
\* the first call the private attributes are as they were before it.  (Stated
\* as claimed; the code keeps the Bedrock client, the session class and a
\* stuck _session_active from one call for the next.)
C25_AttributesUnchanged ==
    (pc = "idle" /\ calls = 1 /\ done \in {"execute", "extract"}) =>
        /\ bedrock = "None"
        /\ nova_class = IF callerSet THEN "None" ELSE "unset"
        /\ session_active = FALSE

\* an interactive call is running or has just ended
InInteractive == op = "interactive" \/ (pc = "idle" /\ done = "interactive")

\* the lines that end the loop, whatever their case
EndsLoop(line) == line \in {"quit", "Quit", "exit", "Exit"}

\* the session calls a sequence of input lines asks for
RECURSIVE CallsFor(_)
CallsFor(ls) ==
    IF ls = <<>> THEN <<>>
    ELSE (IF EndsLoop(Head(ls)) THEN <<>>
          ELSE IF Head(ls) = "screenshot" THEN << <<"screenshot">> >>
          ELSE << <<"act", Head(ls)>> >>) \o CallsFor(Tail(ls))

C27_ErrorIffFailed ==
    ExtractReturned => (xresult.error # None <=> ~xresult.success)

\* C28: for a non-empty task list the ChainResult's success equals
\* all_succeeded; for the empty list they differ: success is true,
\* tasks_completed is 0 and all_succeeded is false.
C28_SuccessVsAllSucceeded ==
    ChainReturned =>
        /\ tasks # <<>> => (cresult.success <=> all_succeeded(cresult))
        /\ tasks = <<>> =>
              /\ cresult.success
              /\ cresult.tasks_completed = 0
              /\ ~all_succeeded(cresult)

\* the chain of no tasks returned: success and all_succeeded differ
C28_Witness ==
    /\ ChainReturned /\ tasks = <<>> /\ constructed = <<>>
    /\ cresult.success /\ ~all_succeeded(cresult)
    /\ cresult.tasks_completed = 0 /\ cresult.results = <<>>

\* C29: _session_active is true exactly between a successful start of a real
\* session and its stop, it is never true in mock mode, and it is false
\* whenever a public method has returned.
C29_SessionActive ==
    /\ session_active <=>
           (nova = "real" /\ hooks.start = Returned /\ hooks.stop = NotCalled)
    /\ nova = "mock" => ~session_active
    /\ (pc = "idle" /\ done # "none") => ~session_active

====
